---- MODULE Spec2Model ----
(***************************************************************************)
(* A model of the image-processing backend in src/app.py: three stateless  *)
(* POST handlers (remove-background, edit-background, resize-image) over   *)
(* the decode_image / encode_image boundary.                               *)
(*                                                                         *)
(* Strings are sequences of one-character strings.  A form (request.form)  *)
(* and the uploads (request.files) are functions from the keys that are    *)
(* present to their values, so "key in request.form" is key \in DOMAIN.    *)
(* An image is a record [size, px, via]: px holds the pixels in row-major  *)
(* order, stored as one period (pixel i, counted from 0, is                *)
(* px[(i % Len(px)) + 1]); via is empty for an image whose pixels are      *)
(* known and otherwise names the library operation (LANCZOS resampling,    *)
(* rembg inference) that produced it from its arguments, kept as an        *)
(* uninterpreted term.                                                     *)
(***************************************************************************)
EXTENDS Integers, Sequences, FiniteSets, TLC

VARIABLES pc, req, env, resp, log

vars == <<pc, req, env, resp, log>>

(***************************************************************************)
(* Bounds of the model.                                                    *)
(***************************************************************************)
\* Largest width and height of a source image sent to /api/resize-image.
MaxDim == 15
\* Longest width / height form value.
MaxDimLen == 2
\* Longest color form value.
MaxColorLen == 7
\* Most pixels of a foreground sent to /api/edit-background.
MaxPixels == 2

(***************************************************************************)
(* Python and library constants.                                           *)
(***************************************************************************)
\* A Python float is an IEEE-754 binary64: 53 significand digits, held here
\* as a leading 1 and FracLimbs digits of radix Radix (2^LimbBits).
LimbBits == 13
Radix == 8192
FracLimbs == 4
\* The alpha that edit_background appends to the parsed RGB triple.
OpaqueAlpha == 255
\* PRECISION_BITS of Pillow's alpha compositing.
CompositePrecisionBits == 7

(***************************************************************************)
(* Integer helpers.                                                        *)
(***************************************************************************)
RECURSIVE Pow2(_)
Pow2(n) == IF n = 0 THEN 1 ELSE 2 * Pow2(n - 1)

RECURSIVE BitLength(_)
\* The number of binary digits of n; 0 for 0.
BitLength(n) == IF n = 0 THEN 0 ELSE 1 + BitLength(n \div 2)

(***************************************************************************)
(* Python float arithmetic (binary64, round to nearest, ties to even), as  *)
(* far as resize_image uses it: one int / int division, one int * float    *)
(* product and one int() truncation, all on positive values.  A float is   *)
(* [m, e]: m = <<1, d1, .., d4>> the significand, most significant digit   *)
(* first, each d below Radix; its value is                                 *)
(* (1 + d1/Radix + d2/Radix^2 + d3/Radix^3 + d4/Radix^4) * 2^e.            *)
(* Operands stay below Radix, which keeps every intermediate within 32-bit  *)
(* integers.                                                               *)
(***************************************************************************)
RECURSIVE Normalize(_, _, _)
\* Scales a / b by powers of two until b <= a < 2b; e counts the scaling.
Normalize(a, b, e) ==
    IF a < b THEN Normalize(2 * a, b, e - 1)
    ELSE IF a >= 2 * b THEN Normalize(a, 2 * b, e + 1)
    ELSE [a |-> a, b |-> b, e |-> e]

RECURSIVE DivLimbs(_, _, _, _)
\* Long division: n more radix-Radix quotient digits of rem / b after acc.
DivLimbs(rem, b, n, acc) ==
    IF n = 0 THEN [m |-> acc, rem |-> rem]
    ELSE LET t == rem * Radix
         IN  DivLimbs(t % b, b, n - 1, Append(acc, t \div b))

RECURSIVE AddOne(_)
\* m plus one unit in its last digit; the leading digit takes the carry.
AddOne(m) ==
    LET last  == m[Len(m)]
        front == SubSeq(m, 1, Len(m) - 1)
    IN  IF Len(m) = 1 \/ last < Radix - 1
        THEN Append(front, last + 1)
        ELSE Append(AddOne(front), 0)

\* The float nearest to significand m followed by a discarded part, where
\* half says the discarded part is exactly half a unit in the last place
\* and above that it is more.
RoundNearestEven(m, e, half, above) ==
    LET up  == above \/ (half /\ m[Len(m)] % 2 = 1)
        inc == AddOne(m)
    IN  IF ~up THEN [m |-> m, e |-> e]
        ELSE IF inc[1] = 2
             THEN [m |-> <<1>> \o Tail(inc), e |-> e + 1]
             ELSE [m |-> inc, e |-> e]

\* a / b for positive ints a and b (Python's true division).
FloatDiv(a, b) ==
    LET n == Normalize(a, b, 0)
        d == DivLimbs(n.a - n.b, n.b, FracLimbs, <<1>>)
    IN  RoundNearestEven(d.m, n.e, 2 * d.rem = n.b, 2 * d.rem > n.b)

RECURSIVE MulLimbs(_, _, _, _)
\* The digits of m times k, from digit i up; the leading digit holds the
\* whole carry and so may exceed 1.
MulLimbs(m, k, i, carry) ==
    LET t == m[i] * k + carry
    IN  IF i = 1 THEN <<t>>
        ELSE Append(MulLimbs(m, k, i - 1, t \div Radix), t % Radix)

\* p with every digit moved x binary places (x <= LimbBits) to the right.
ShiftRight(p, x) ==
    [i \in 1..Len(p) |->
        (p[i] \div Pow2(x))
        + (IF i > 1 THEN (p[i - 1] % Pow2(x)) * Pow2(LimbBits - x) ELSE 0)]

\* k * f for a positive int k and a positive float f.
FloatMulInt(k, f) ==
    LET p       == MulLimbs(f.m, k, Len(f.m), 0)
        x       == BitLength(p[1]) - 1
        dropped == p[Len(p)] % Pow2(x)
        halfway == IF x = 0 THEN 0 ELSE Pow2(x - 1)
    IN  RoundNearestEven(ShiftRight(p, x), f.e + x,
                         x > 0 /\ dropped = halfway,
                         x > 0 /\ dropped > halfway)

\* int(f) for a positive float f below 2^(2 * LimbBits): truncation toward
\* zero.
FloatToInt(f) ==
    IF f.e < 0 THEN 0
    ELSE IF f.e <= LimbBits
         THEN (f.m[1] * Radix + f.m[2]) \div Pow2(LimbBits - f.e)
         ELSE ((f.m[1] * Radix + f.m[2]) * Radix + f.m[3])
                  \div Pow2(2 * LimbBits - f.e)

(***************************************************************************)
(* Python values and strings.                                              *)
(***************************************************************************)
\* Python's None: what decode_image and encode_image return on failure.
None == [none |-> TRUE]

\* The strings over alphabet of length at most n.
Strings(alphabet, n) == UNION {[1..k -> alphabet] : k \in 0..n}

\* form.get(key) is truthy: the key is present and its value is not "".
Truthy(form, key) == key \in DOMAIN form /\ form[key] # <<>>

\* s[i:j] for 0 <= i <= j.
Slice(s, i, j) ==
    LET hi == IF j < Len(s) THEN j ELSE Len(s)
    IN  IF i >= hi THEN <<>> ELSE SubSeq(s, i + 1, hi)

RECURSIVE LStrip(_, _)
\* s.lstrip(ch)
LStrip(s, ch) ==
    IF s # <<>> /\ Head(s) = ch THEN LStrip(Tail(s), ch) ELSE s

\* The value of a digit character, or -1 for any other character.
DigitValue(c) ==
    CASE c = "0" -> 0  [] c = "1" -> 1  [] c = "2" -> 2  [] c = "3" -> 3
      [] c = "4" -> 4  [] c = "5" -> 5  [] c = "6" -> 6  [] c = "7" -> 7
      [] c = "8" -> 8  [] c = "9" -> 9
      [] c \in {"a", "A"} -> 10  [] c \in {"b", "B"} -> 11
      [] c \in {"c", "C"} -> 12  [] c \in {"d", "D"} -> 13
      [] c \in {"e", "E"} -> 14  [] c \in {"f", "F"} -> 15
      [] OTHER -> -1

IsDigit(c, base) == DigitValue(c) >= 0 /\ DigitValue(c) < base

RECURSIVE DigitsValue(_, _)
DigitsValue(s, base) ==
    IF s = <<>> THEN 0
    ELSE base * DigitsValue(SubSeq(s, 1, Len(s) - 1), base)
             + DigitValue(s[Len(s)])

\* int(s, base) for a string of signs, digits and letters: an optional
\* sign, then at least one digit of the base; anything else raises
\* ValueError (ok = FALSE).  Whitespace, underscores and a 0x prefix are
\* not modelled: no request of the model carries them.
ParseInt(s, base) ==
    LET signed == s # <<>> /\ Head(s) \in {"+", "-"}
        digits == IF signed THEN Tail(s) ELSE s
        ok     == digits # <<>>
                    /\ \A i \in 1..Len(digits) : IsDigit(digits[i], base)
        mag    == IF ok THEN DigitsValue(digits, base) ELSE 0
    IN  [ok  |-> ok,
         val |-> IF signed /\ Head(s) = "-" THEN 0 - mag ELSE mag]

\* tuple(int(hex_color[i:i+2], 16) for i in (0, 2, 4)) + (255,) for
\* hex_color = color.lstrip('#'); ok = FALSE when an int() raises
\* ValueError.
ParseHexColor(color) ==
    LET hex_color == LStrip(color, "#")
        r == ParseInt(Slice(hex_color, 0, 2), 16)
        g == ParseInt(Slice(hex_color, 2, 4), 16)
        b == ParseInt(Slice(hex_color, 4, 6), 16)
    IN  [ok  |-> r.ok /\ g.ok /\ b.ok,
         rgb |-> <<r.val, g.val, b.val, OpaqueAlpha>>]

(***************************************************************************)
(* Images (PIL.Image in mode RGBA).                                        *)
(***************************************************************************)
\* Pixel i (from 0, row-major) of an image whose pixels are known.
GetPixel(im, i) == im.px[(i % Len(im.px)) + 1]

PixelCount(im) == im.size[1] * im.size[2]

\* Image.new("RGBA", size, color): every pixel is color.
ImageNew(size, color) == [size |-> size, px |-> <<color>>, via |-> <<>>]

\* Image.open(...).convert("RGBA") of decodable content: an RGB pixel
\* gains alpha 255, an RGBA pixel is kept.
ConvertRGBA(content) ==
    [size |-> content.size,
     px   |-> [i \in 1..Len(content.px) |->
                  IF content.mode = "RGB"
                  THEN Append(content.px[i], OpaqueAlpha)
                  ELSE content.px[i]],
     via  |-> <<>>]

\* An image produced by a library operation whose pixel arithmetic is not
\* modelled: a term over the operation and its arguments.
Opaque(size, op, args) ==
    [size |-> size, px |-> <<>>, via |-> <<[op |-> op, args |-> args]>>]

\* im.resize(size, Image.Resampling.LANCZOS): Pillow returns a copy when
\* the size is unchanged and raises ValueError for a size below 1; ok says
\* whether an image is returned.
Resize(im, size) ==
    IF size = im.size THEN [ok |-> TRUE, image |-> im, error |-> ""]
    ELSE IF size[1] < 1 \/ size[2] < 1
    THEN [ok |-> FALSE, image |-> None,
          error |-> "height and width must be > 0"]
    ELSE [ok |-> TRUE, image |-> Opaque(size, "LANCZOS", <<im>>),
          error |-> ""]

\* rembg.remove(image): an image of the same size.
Remove(im) == Opaque(im.size, "rembg", <<im>>)

\* Pillow's SHIFTFORDIV255.
ShiftForDiv255(a) == ((a \div 256) + a) \div 256

\* A paste instead of a composite: the source pixel replaces the other.
CompositePixel_Paste(dst, src) == src

\* One pixel of Pillow's ImagingAlphaComposite: src over dst.
CompositePixel(dst, src) ==
    IF src[4] = 0 THEN dst
    ELSE LET one     == Pow2(CompositePrecisionBits)
             blend   == dst[4] * (255 - src[4])
             outa255 == src[4] * 255 + blend
             coef1   == (src[4] * 255 * 255 * one) \div outa255
             coef2   == 255 * one - coef1
             ch(c)   == ShiftForDiv255(src[c] * coef1 + dst[c] * coef2
                                          + 128 * one) \div one
         IN  <<ch(1), ch(2), ch(3), ShiftForDiv255(outa255 + 128)>>

RECURSIVE GCD(_, _)
GCD(a, b) == IF b = 0 THEN a ELSE GCD(b, a % b)

\* Image.alpha_composite(dst, src) for two images of one size.
AlphaComposite(dst, src) ==
    IF dst.via # <<>> \/ src.via # <<>>
    THEN Opaque(src.size, "alpha_composite", <<dst, src>>)
    ELSE LET period == (Len(dst.px) * Len(src.px))
                           \div GCD(Len(dst.px), Len(src.px))
         IN  [size |-> src.size,
              px   |-> [i \in 1..period |->
                           CompositePixel(GetPixel(dst, i - 1),
                                          GetPixel(src, i - 1))],
              via  |-> <<>>]

(***************************************************************************)
(* The decode / encode boundary.                                           *)
(***************************************************************************)
\* decode_image(base64_string): None when the payload is not the Base64 of
\* an image file, else the image converted to RGBA.
decode_image(payload) ==
    IF payload.kind # "image" THEN None ELSE ConvertRGBA(payload)

\* encode_image(image): the PNG data URI, or None when saving fails.
encode_image(image, fails) ==
    IF fails THEN None
    ELSE [prefix |-> "data:image/png;base64,", png |-> image]

(***************************************************************************)
(* The handlers.  Each takes the request and the environment's part in it  *)
(* (env.remove_raises: rembg raises; env.encode_fails: saving the PNG      *)
(* fails; env.bytesio_repr: the repr of the buffer an upload is opened     *)
(* from) and yields the response with the calls it made, in order.         *)
(***************************************************************************)
Reply(status, body, calls) ==
    [status |-> status, body |-> body, calls |-> calls]

\* The message of the exception rembg raises, when it does.
RembgError == "inference failed"

\* str(e) of the PIL.UnidentifiedImageError that Image.open(fp) raises:
\* "cannot identify image file %r" % fp, fp being the io.BytesIO that line 82
\* wraps around the upload's bytes.
UnidentifiedImageError(fp) == "cannot identify image file " \o fp

\* The reply to a form without image_data (lines 33-34, 61-62, 115-116).
NoImageData_WrongStatus ==
    Reply(500, [error |-> "No image_data provided"], <<>>)

NoImageData == Reply(400, [error |-> "No image_data provided"], <<>>)

\* POST /api/remove-background
remove_background(r, ev) ==
    IF "image_data" \notin DOMAIN r.form
    THEN NoImageData
    ELSE
    LET input_image == decode_image(r.form["image_data"])
    IN
    IF input_image = None
    THEN Reply(400, [error |-> "Invalid image data"], <<"decode_image">>)
    ELSE IF ev.remove_raises
    THEN Reply(500, [error   |-> "Failed to remove background",
                     details |-> RembgError],
               <<"decode_image", "remove">>)
    ELSE
    LET output_image        == Remove(input_image)
        processed_image_b64 == encode_image(output_image, ev.encode_fails)
        calls               == <<"decode_image", "remove", "encode_image">>
    IN
    IF processed_image_b64 = None
    THEN Reply(500, [error |-> "Failed to encode processed image"], calls)
    ELSE Reply(200, [image_data |-> processed_image_b64,
                     message    |-> "Background removed successfully!"],
               calls)

\* bool(request.files.get('background_image')): a FileStorage is truthy
\* when its filename is not empty.
HasBackgroundFile(r) ==
    "background_image" \in DOMAIN r.files
        /\ r.files["background_image"].filename # ""

\* Line 80 with the branches swapped: the color is taken when there is one.
UseBackgroundFile_ColorFirst(r) ==
    HasBackgroundFile(r) /\ ~Truthy(r.form, "color")

\* Line 80: the upload is taken whenever there is one; the color only
\* otherwise (line 86).
UseBackgroundFile(r) == HasBackgroundFile(r)

\* Lines 96-107 without the compositing: the background alone is encoded.
CompositeAndEncode_NoComposite(new_background, current_image, ev, calls) ==
    LET processed_image_b64 == encode_image(new_background, ev.encode_fails)
        all                 == calls \o <<"encode_image">>
    IN  IF processed_image_b64 = None
        THEN Reply(500, [error |-> "Failed to encode processed image"], all)
        ELSE Reply(200, [image_data |-> processed_image_b64,
                         message    |-> "Background edited successfully!"],
                   all)

\* The composite and encode steps that end edit_background (lines 96-107).
CompositeAndEncode(new_background, current_image, ev, calls) ==
    LET final_image         == AlphaComposite(new_background, current_image)
        processed_image_b64 == encode_image(final_image, ev.encode_fails)
        all                 == calls \o <<"alpha_composite", "encode_image">>
    IN  IF processed_image_b64 = None
        THEN Reply(500, [error |-> "Failed to encode processed image"], all)
        ELSE Reply(200, [image_data |-> processed_image_b64,
                         message    |-> "Background edited successfully!"],
                   all)

\* POST /api/edit-background
edit_background(r, ev) ==
    IF "image_data" \notin DOMAIN r.form
    THEN NoImageData
    ELSE
    LET current_image == decode_image(r.form["image_data"])
    IN
    IF current_image = None
    THEN Reply(400, [error |-> "Invalid current image data"],
               <<"decode_image">>)
    ELSE IF ~Truthy(r.form, "color") /\ ~HasBackgroundFile(r)
    THEN Reply(400,
               [error |->
                  "Either 'color' or 'background_image' must be provided"],
               <<"decode_image">>)
    ELSE IF UseBackgroundFile(r)
    THEN LET content == r.files["background_image"].content
         IN  IF content.kind # "image"
             THEN Reply(500, [error   |-> "Failed to edit background",
                              details |-> UnidentifiedImageError(
                                              ev.bytesio_repr)],
                        <<"decode_image", "open_background">>)
             ELSE \* the paste at (0, 0) covers the whole canvas
                  CompositeAndEncode(
                      Resize(ConvertRGBA(content), current_image.size).image,
                      current_image, ev,
                      <<"decode_image", "open_background",
                        "resize_background">>)
    ELSE LET rgb_color == ParseHexColor(r.form["color"])
         IN  IF ~rgb_color.ok
             THEN Reply(400, [error |-> "Invalid color hex code"],
                        <<"decode_image">>)
             ELSE CompositeAndEncode(
                      ImageNew(current_image.size, rgb_color.rgb),
                      current_image, ev, <<"decode_image">>)

\* width_str / height_str as parsed by lines 130-144: absent when the field
\* is missing or empty, else int(value).
ParseDimension(form, key) ==
    IF ~Truthy(form, key)
    THEN [given |-> FALSE, ok |-> TRUE, val |-> 0]
    ELSE LET n == ParseInt(form[key], 10)
         IN  [given |-> TRUE, ok |-> n.ok, val |-> n.val]

\* int(given * (other_original / original)): the dimension computed to keep
\* the aspect ratio (lines 164-165 and 169-170).
ScaledDimension(given, other_original, original) ==
    FloatToInt(FloatMulInt(given, FloatDiv(other_original, original)))

\* The (width, height) handed to resize (lines 159-171).
TargetSize(width, height, size) ==
    IF width.given /\ height.given THEN <<width.val, height.val>>
    ELSE IF width.given
    THEN <<width.val, ScaledDimension(width.val, size[2], size[1])>>
    ELSE <<ScaledDimension(height.val, size[1], size[2]), height.val>>

\* POST /api/resize-image
resize_image(r, ev) ==
    IF "image_data" \notin DOMAIN r.form
    THEN NoImageData
    ELSE
    LET current_image == decode_image(r.form["image_data"])
        width         == ParseDimension(r.form, "width")
        height        == ParseDimension(r.form, "height")
    IN
    IF current_image = None
    THEN Reply(400, [error |-> "Invalid current image data"],
               <<"decode_image">>)
    ELSE IF width.given /\ ~width.ok
    THEN Reply(400, [error |-> "Invalid width parameter"],
               <<"decode_image">>)
    ELSE IF width.given /\ width.val <= 0
    THEN Reply(400, [error |-> "Width must be a positive integer"],
               <<"decode_image">>)
    ELSE IF height.given /\ ~height.ok
    THEN Reply(400, [error |-> "Invalid height parameter"],
               <<"decode_image">>)
    ELSE IF height.given /\ height.val <= 0
    THEN Reply(400, [error |-> "Height must be a positive integer"],
               <<"decode_image">>)
    ELSE IF ~width.given /\ ~height.given
    THEN LET processed_image_b64 ==
                 encode_image(current_image, ev.encode_fails)
             calls == <<"decode_image", "encode_image">>
         IN  IF processed_image_b64 = None
             THEN Reply(500, [error |-> "Failed to encode image"], calls)
             ELSE Reply(200,
                        [image_data |-> processed_image_b64,
                         message    |->
                            "No dimensions provided, image returned as is."],
                        calls)
    ELSE
    LET resized == Resize(current_image,
                          TargetSize(width, height, current_image.size))
    IN
    IF ~resized.ok
    THEN Reply(500, [error   |-> "Failed to resize image",
                     details |-> resized.error],
               <<"decode_image", "resize">>)
    ELSE
    LET processed_image_b64 == encode_image(resized.image, ev.encode_fails)
        calls               == <<"decode_image", "resize", "encode_image">>
    IN
    IF processed_image_b64 = None
    THEN Reply(500, [error |-> "Failed to encode processed image"], calls)
    ELSE Reply(200, [image_data |-> processed_image_b64,
                     message    |-> "Image resized successfully!"],
               calls)

(***************************************************************************)
(* The requests of the model.                                              *)
(***************************************************************************)
\* A transparent and an opaque RGBA pixel.
Palette == {<<12, 34, 56, 0>>, <<10, 200, 30, 255>>}

\* Content that is not the bytes of an image file.
Garbage == [kind |-> "garbage", mode |-> "", size |-> <<0, 0>>, px |-> <<>>]

ImageContent(mode, size, px) ==
    [kind |-> "image", mode |-> mode, size |-> size, px |-> px]

\* Foregrounds sent to /api/edit-background: every RGBA image of one row of
\* at most MaxPixels palette pixels, a translucent one and an RGB one.
EditContents ==
    UNION {{ImageContent("RGBA", <<n, 1>>, px) : px \in [1..n -> Palette]} :
              n \in 1..MaxPixels}
    \cup {ImageContent("RGBA", <<1, 1>>, <<<<200, 100, 50, 128>>>>),
          ImageContent("RGB", <<1, 1>>, <<<<90, 80, 70>>>>)}

\* Images sent to /api/remove-background and /api/resize-image: one
\* translucent colour, every size up to MaxDim x MaxDim.
ResizeContents ==
    {ImageContent("RGBA", <<w, h>>, <<<<200, 100, 50, 128>>>>) :
        w \in 1..MaxDim, h \in 1..MaxDim}

\* Uploads for background_image: a part without a filename (what a browser
\* sends for an empty file input), a file that is no image, and images of
\* two sizes.
Uploads ==
    {[filename |-> "", content |-> ImageContent("RGB", <<1, 1>>, <<<<0, 0, 255>>>>)],
     [filename |-> "bg.txt", content |-> Garbage],
     [filename |-> "bg.png",
      content  |-> ImageContent("RGB", <<1, 1>>, <<<<0, 0, 255>>>>)],
     [filename |-> "bg.png",
      content  |-> ImageContent("RGBA", <<2, 1>>,
                                <<<<0, 0, 255, 255>>, <<1, 2, 3, 64>>>>)]}

ColorStrings == Strings({"#", "0", "F"}, MaxColorLen)

DimStrings == Strings({"-", "0", "1"}, MaxDimLen)

\* The functions with at most the one key, valued in values.
Optional(key, values) == {<<>>} \cup {key :> v : v \in values}

\* A request as Flask hands it to a handler.
Request(endpoint, form, files) ==
    [endpoint |-> endpoint, form |-> form, files |-> files]

\* repr() of the io.BytesIO a handler makes for Image.open, which ends up in
\* the message of a failed open.  The address is the runtime's choice: two
\* stand for any.
BytesIOReprs ==
    {"<_io.BytesIO object at 0x7f280cd27e20>",
     "<_io.BytesIO object at 0x7f280cd27e80>"}

Environments ==
    [remove_raises : BOOLEAN, encode_fails : BOOLEAN,
     bytesio_repr : BytesIOReprs]

(***************************************************************************)
(* The service: it takes one request, runs its handler to the response,    *)
(* sends it, and is idle again.  Nothing is kept between requests.         *)
(***************************************************************************)
Init ==
    /\ pc = "idle"
    /\ req = <<>>
    /\ env = <<>>
    /\ resp = <<>>
    /\ log = <<>>

Receive(r) ==
    /\ req' = r
    /\ pc' = "pending"
    /\ UNCHANGED <<env, resp, log>>

\* Runs handler on the pending request under environment ev.
Handle(endpoint, reply, ev) ==
    /\ pc = "pending"
    /\ req.endpoint = endpoint
    /\ env' = ev
    /\ resp' = [status |-> reply.status, body |-> reply.body]
    /\ log' = reply.calls
    /\ pc' = "done"
    /\ UNCHANGED req

ReceiveRemove ==
    /\ pc = "idle"
    /\ \E i \in Optional("image_data", {Garbage} \cup EditContents) :
           Receive(Request("remove", i, <<>>))

ReceiveEdit ==
    /\ pc = "idle"
    /\ \E i \in Optional("image_data", {Garbage} \cup EditContents),
          c \in Optional("color", ColorStrings),
          b \in Optional("background_image", Uploads) :
           Receive(Request("edit", i @@ c, b))

ReceiveResize ==
    /\ pc = "idle"
    /\ \E i \in Optional("image_data", {Garbage} \cup ResizeContents),
          w \in Optional("width", DimStrings),
          h \in Optional("height", DimStrings) :
           Receive(Request("resize", i @@ w @@ h, <<>>))

RemoveBackground ==
    \E ev \in Environments :
        Handle("remove", remove_background(req, ev), ev)

EditBackground ==
    \E ev \in {x \in Environments : ~x.remove_raises} :
        Handle("edit", edit_background(req, ev), ev)

ResizeImage ==
    \E ev \in {x \in Environments : ~x.remove_raises} :
        Handle("resize", resize_image(req, ev), ev)

\* The response is sent; the request and everything made for it is dropped.
Respond ==
    /\ pc = "done"
    /\ pc' = "idle"
    /\ req' = <<>>
    /\ env' = <<>>
    /\ resp' = <<>>
    /\ log' = <<>>

Next ==
    \/ ReceiveRemove
    \/ ReceiveEdit
    \/ ReceiveResize
    \/ RemoveBackground
    \/ EditBackground
    \/ ResizeImage
    \/ Respond

Spec == Init /\ [][Next]_vars

\* The service restricted to /api/edit-background.
NextEdit == ReceiveEdit \/ EditBackground \/ Respond

SpecEdit == Init /\ [][NextEdit]_vars

\* The service restricted to /api/resize-image.
NextResize == ReceiveResize \/ ResizeImage \/ Respond

SpecResize == Init /\ [][NextResize]_vars

(***************************************************************************)
(* What the claims speak of, stated on the request and the response alone. *)
(***************************************************************************)
Done(endpoint) == pc = "done" /\ req.endpoint = endpoint

HasField(key) == key \in DOMAIN req.form

\* The form carries image_data and it is the Base64 of an image file.
Decodable == HasField("image_data") /\ req.form["image_data"].kind = "image"

\* The field is present and its value parses as a strictly positive integer.
PositiveField(key) ==
    /\ HasField(key)
    /\ ParseInt(req.form[key], 10).ok
    /\ ParseInt(req.form[key], 10).val > 0

\* A background_image part came with the request, named or not.
HasUploadPart == "background_image" \in DOMAIN req.files

\* A background_image upload with a filename came with the request.
HasUpload ==
    /\ HasUploadPart
    /\ req.files["background_image"].filename # ""

IsHexString(s) == \A i \in 1..Len(s) : IsDigit(s[i], 16)

\* Six hex digits, optionally preceded by '#'.
ValidHexColor(s) ==
    \/ Len(s) = 6 /\ IsHexString(s)
    \/ Len(s) = 7 /\ Head(s) = "#" /\ IsHexString(Tail(s))

\* The (r, g, b, 255) a valid hex color denotes.
HexColorPixel(s) ==
    LET h == IF Len(s) = 7 THEN Tail(s) ELSE s
        byte(i) == 16 * DigitValue(h[i]) + DigitValue(h[i + 1])
    IN  <<byte(1), byte(3), byte(5), 255>>

\* The image a 200 response carries.
ResultImage == resp.body.image_data.png

Transforms == {"remove", "alpha_composite", "resize"}

CountCalls(names) == Cardinality({i \in DOMAIN log : log[i] \in names})

\* The place of a call in decode -> transform -> encode; preparing the
\* uploaded background belongs to the compositing that follows it.
CallRank(name) ==
    CASE name = "decode_image" -> 1
      [] name = "open_background" -> 2
      [] name = "resize_background" -> 3
      [] name \in Transforms -> 4
      [] name = "encode_image" -> 5

\* The calls were made in the order decode, transform, encode, none twice.
CallsInOrder ==
    \A i, j \in DOMAIN log : i < j => CallRank(log[i]) < CallRank(log[j])

\* A transform was started only on a decoded image and in a request that
\* was not rejected as a client error.
TransformAfterValidation ==
    CountCalls(Transforms) > 0 =>
        /\ Decodable
        /\ log[1] = "decode_image"
        /\ resp.status # 400

NoOpMessage == "No dimensions provided, image returned as is."

(***************************************************************************)
(* The claims.                                                             *)
(***************************************************************************)
\* C1: on each of the three endpoints a request whose form has no
\* image_data is answered 400 "No image_data provided", whatever its other
\* fields hold, and no decode, transform or encode is run for it.
C1_MissingImageData ==
    (pc = "done" /\ ~HasField("image_data")) =>
        /\ resp = [status |-> 400,
                   body   |-> [error |-> "No image_data provided"]]
        /\ log = <<>>

\* Reached: an edit request without image_data but with a color and an
\* upload has been answered.
C1_Witness ==
    /\ Done("edit")
    /\ ~HasField("image_data")
    /\ HasField("color") /\ ValidHexColor(req.form["color"])
    /\ HasUpload
    /\ resp.status = 400

\* C2: a resize request that supplies a width or a height whose value does
\* not parse as a strictly positive integer is answered 400, never 200.
C2_BadDimensionRejected ==
    (/\ Done("resize")
     /\ \/ HasField("width") /\ ~PositiveField("width")
        \/ HasField("height") /\ ~PositiveField("height"))
        => resp.status = 400

\* C3: an edit request with a decodable image whose color is present and is
\* not six hex digits (optionally after '#') is answered 400, never 200 or
\* 500.  Stated for the requests that carry no upload, where the color is
\* the only background.
C3_BadColorRejected ==
    (/\ Done("edit")
     /\ Decodable
     /\ req.files = <<>>
     /\ HasField("color") /\ ~ValidHexColor(req.form["color"]))
        => resp.status = 400

\* C4: a resize with only a width w on a W x H source yields w x
\* floor(w * H / W), and with only a height h yields floor(h * W / H) x h,
\* the quotient taken exactly.
C4_ProportionalFloor ==
    LET size == req.form["image_data"].size
        w    == ParseInt(req.form["width"], 10).val
        h    == ParseInt(req.form["height"], 10).val
    IN  /\ (/\ Done("resize") /\ Decodable /\ resp.status = 200
            /\ PositiveField("width") /\ ~HasField("height"))
               => ResultImage.size = <<w, (w * size[2]) \div size[1]>>
        /\ (/\ Done("resize") /\ Decodable /\ resp.status = 200
            /\ PositiveField("height") /\ ~HasField("width"))
               => ResultImage.size = <<(h * size[1]) \div size[2], h>>

\* C5: a resize with a decodable image and neither width nor height is
\* answered 200 with the decoded input itself, no resize invoked, and the
\* no-op message; and only such a request gets the no-op response.
C5_NoOpOnlyWithoutDimensions ==
    /\ (/\ Done("resize") /\ Decodable /\ ~env.encode_fails
        /\ ~HasField("width") /\ ~HasField("height"))
           => /\ resp.status = 200
              /\ ResultImage = decode_image(req.form["image_data"])
              /\ resp.body.message = NoOpMessage
              /\ CountCalls(Transforms) = 0
    /\ (/\ Done("resize") /\ resp.status = 200
        /\ resp.body.message = NoOpMessage)
           => ~HasField("width") /\ ~HasField("height")

\* C6: every 400 or 500 response has an error key and no image_data key,
\* and every 500 response has a details key as well.
C6_ErrorBodies ==
    pc = "done" =>
        /\ resp.status \in {400, 500} =>
              /\ "error" \in DOMAIN resp.body
              /\ "image_data" \notin DOMAIN resp.body
        /\ resp.status = 500 => "details" \in DOMAIN resp.body

\* C7: an edit with a valid hex color, no upload and a decodable foreground
\* yields an image of the foreground's size in which a pixel is the
\* foreground's where the foreground is opaque (alpha 255) and the color at
\* full opacity where the foreground is transparent (alpha 0).
C7_SolidColorComposite ==
    (/\ Done("edit") /\ Decodable /\ ~env.encode_fails
     /\ req.files = <<>>
     /\ HasField("color") /\ ValidHexColor(req.form["color"]))
        => LET fg == decode_image(req.form["image_data"])
           IN  /\ resp.status = 200
               /\ ResultImage.size = fg.size
               /\ ResultImage.via = <<>>
               /\ \A i \in 0..(PixelCount(fg) - 1) :
                     /\ GetPixel(fg, i)[4] = 255 =>
                           GetPixel(ResultImage, i) = GetPixel(fg, i)
                     /\ GetPixel(fg, i)[4] = 0 =>
                           GetPixel(ResultImage, i)
                               = HexColorPixel(req.form["color"])

\* Reached: "#FF0000" under a foreground of one transparent and one opaque
\* pixel came back as a red and the opaque pixel.
C7_Witness ==
    /\ Done("edit") /\ Decodable /\ req.files = <<>>
    /\ HasField("color")
    /\ req.form["color"] = <<"#", "F", "F", "0", "0", "0", "0">>
    /\ req.form["image_data"].px
           = <<<<12, 34, 56, 0>>, <<10, 200, 30, 255>>>>
    /\ resp.status = 200
    /\ ResultImage.px = <<<<255, 0, 0, 255>>, <<10, 200, 30, 255>>>>

\* C8 as claimed: the calls run in the order decode, transform, encode; no
\* transform starts before the decode succeeded and validation passed;
\* every 200 made exactly one transform and then one encode; every 400 made
\* neither.
C8_OneTransformPerSuccess ==
    pc = "done" =>
        /\ CallsInOrder
        /\ TransformAfterValidation
        /\ resp.status = 200 =>
              CountCalls(Transforms) = 1 /\ CountCalls({"encode_image"}) = 1
        /\ resp.status = 400 =>
              CountCalls(Transforms) = 0 /\ CountCalls({"encode_image"}) = 0

\* C8 as amended: as claimed, except that a resize request with no
\* non-empty width and no non-empty height, when answered 200, made one
\* encode and no transform.
C8_OneTransformUnlessNoOp ==
    pc = "done" =>
        /\ CallsInOrder
        /\ TransformAfterValidation
        /\ resp.status = 200 =>
              /\ CountCalls({"encode_image"}) = 1
              /\ CountCalls(Transforms) =
                    IF /\ req.endpoint = "resize"
                       /\ ~Truthy(req.form, "width")
                       /\ ~Truthy(req.form, "height")
                    THEN 0 ELSE 1
        /\ resp.status = 400 =>
              CountCalls(Transforms) = 0 /\ CountCalls({"encode_image"}) = 0

\* Reached: a resize request without dimensions was answered 200 after a
\* decode and an encode alone.
C8_Witness ==
    /\ Done("resize")
    /\ ~HasField("width") /\ ~HasField("height")
    /\ resp.status = 200
    /\ log = <<"decode_image", "encode_image">>

\* C9: a resize of a decodable W x H source with exactly one dimension
\* supplied, a positive integer, gets a target that is at least 1 in both
\* axes, and is not refused for the computed dimension.
C9_ComputedDimensionPositive ==
    (/\ Done("resize") /\ Decodable
     /\ \/ PositiveField("width") /\ ~HasField("height")
        \/ PositiveField("height") /\ ~HasField("width"))
        => LET target == TargetSize(ParseDimension(req.form, "width"),
                                    ParseDimension(req.form, "height"),
                                    req.form["image_data"].size)
           IN  /\ target[1] >= 1 /\ target[2] >= 1
               /\ ~env.encode_fails => resp.status = 200

\* The reply to the edit request at hand is the reply to the same request
\* without its color field, is no 400, and on success shows the foreground
\* composited over the upload brought to the foreground's size.
UploadOverridesColor ==
    LET fg      == decode_image(req.form["image_data"])
        upload  == req.files["background_image"].content
        bare    == [req EXCEPT !.form =
                       [k \in DOMAIN req.form \ {"color"} |->
                           req.form[k]]]
        without == edit_background(bare, env)
    IN  /\ resp = [status |-> without.status, body |-> without.body]
        /\ log = without.calls
        /\ resp.status # 400
        /\ resp.status = 200 =>
              /\ ResultImage.size = fg.size
              /\ upload.size = fg.size =>
                    \A i \in 0..(PixelCount(fg) - 1) :
                       GetPixel(fg, i)[4] = 0 =>
                          GetPixel(ResultImage, i)
                             = GetPixel(ConvertRGBA(upload), i)
              /\ upload.size # fg.size =>
                    /\ ResultImage.via[1].op = "alpha_composite"
                    /\ ResultImage.via[1].args[2] = fg
                    /\ ResultImage.via[1].args[1]
                          = Opaque(fg.size, "LANCZOS",
                                   <<ConvertRGBA(upload)>>)

\* C10 as claimed: an edit with a decodable image, a color field and a
\* background_image part is answered as if the color were not there: never
\* 400 for the color, and on success the foreground composited over the
\* upload brought to the foreground's size.
C10_UploadOverridesColor ==
    (/\ Done("edit") /\ Decodable /\ HasField("color") /\ HasUploadPart)
        => UploadOverridesColor

\* C10 amended: an edit with a decodable image, a color field and a
\* background_image upload with a non-empty filename is answered as if the
\* color were not there: never 400 for the color, and on success the
\* foreground composited over the upload brought to the foreground's size.
C10_NamedUploadOverridesColor ==
    (/\ Done("edit") /\ Decodable /\ HasField("color") /\ HasUpload)
        => UploadOverridesColor

\* Reached: an edit with a named upload and a color that is no hex color
\* was answered 200.
C10_Witness ==
    /\ Done("edit") /\ Decodable /\ HasUpload
    /\ HasField("color") /\ ~ParseHexColor(req.form["color"]).ok
    /\ req.form["color"] # <<>>
    /\ resp.status = 200

====
